---- MODULE Spec2Model ----
(***************************************************************************)
(* A model of the calculator of src/script.js: the Calculator state        *)
(* (currentOperand, previousOperand, operation, shouldResetDisplay), the   *)
(* five UIController input handlers and the error auto-clear timer of      *)
(* showError.                                                              *)
(*                                                                         *)
(* Operand strings are sequences of one-character strings.  JavaScript     *)
(* Numbers are IEEE 754 binary64 values; they are modelled exactly, as a   *)
(* sign, a 53-bit significand and a binary exponent, with round to         *)
(* nearest, ties to even, after every arithmetic operation.  The           *)
(* significands do not fit the integers of the model checker, so they are  *)
(* kept as sequences of 15-bit limbs, least significant limb first.        *)
(***************************************************************************)
EXTENDS Integers, Sequences, FiniteSets, TLC

(***************************************************************************)
(* The operators of the numeric library call one another through Lib,      *)
(* which is defined where the library ends: Lib("F", <<x, y>>) is F(x, y), *)
(* with x and y evaluated before F is entered.                             *)
(***************************************************************************)
RECURSIVE Lib(_, _)

(***************************************************************************)
(* Natural numbers of any size: sequences of limbs in 0..Base-1, least     *)
(* significant first, without leading (last) zero limbs; <<>> is zero.     *)
(***************************************************************************)
LimbBits == 3 * 5

Pow2(n) == 2 ^ n

Base == Pow2(LimbBits)

RECURSIVE BNorm(_)
BNorm(a) ==
    IF a = <<>> THEN <<>>
    ELSE IF a[Len(a)] = 0 THEN BNorm(SubSeq(a, 1, Len(a) - 1)) ELSE a

RECURSIVE BFromInt(_)
BFromInt(n) == IF n = 0 THEN <<>> ELSE <<n % Base>> \o BFromInt(n \div Base)

BLimb(a, i) == IF i <= Len(a) THEN a[i] ELSE 0

BMaxLen(a, b) == IF Len(a) >= Len(b) THEN Len(a) ELSE Len(b)

\* -1, 0 or 1 as a < b, a = b, a > b, comparing from limb i downwards
RECURSIVE BCmpFrom(_, _, _)
BCmpFrom(a, b, i) ==
    IF i = 0 THEN 0
    ELSE IF a[i] < b[i] THEN -1
    ELSE IF a[i] > b[i] THEN 1
    ELSE BCmpFrom(a, b, i - 1)

BCmp(a, b) ==
    IF Len(a) < Len(b) THEN -1
    ELSE IF Len(a) > Len(b) THEN 1
    ELSE BCmpFrom(a, b, Len(a))

\* a + b: acc holds the limbs of the sum found so far
RECURSIVE BAddFrom(_, _, _, _)
BAddFrom(a, b, carry, acc) ==
    IF Len(acc) >= BMaxLen(a, b)
    THEN IF carry = 0 THEN acc ELSE Append(acc, carry)
    ELSE LET s == BLimb(a, Len(acc) + 1) + BLimb(b, Len(acc) + 1) + carry
         IN  IF s >= Base THEN BAddFrom(a, b, 1, Append(acc, s - Base))
             ELSE BAddFrom(a, b, 0, Append(acc, s))

BAdd(a, b) ==
    IF a = <<>> THEN b ELSE IF b = <<>> THEN a ELSE Lib("BAddFrom", <<a, b, 0, <<>>>>)

\* a - b, for a >= b
RECURSIVE BSubFrom(_, _, _, _)
BSubFrom(a, b, borrow, acc) ==
    IF Len(acc) >= Len(a) THEN BNorm(acc)
    ELSE LET d == a[Len(acc) + 1] - BLimb(b, Len(acc) + 1) - borrow
         IN  IF d < 0 THEN BSubFrom(a, b, 1, Append(acc, d + Base))
             ELSE BSubFrom(a, b, 0, Append(acc, d))

BSub(a, b) == IF b = <<>> THEN a ELSE Lib("BSubFrom", <<a, b, 0, <<>>>>)

\* a * k, for 0 <= k < Base
RECURSIVE BMulSmallFrom(_, _, _, _)
BMulSmallFrom(a, k, carry, acc) ==
    IF Len(acc) >= Len(a)
    THEN IF carry = 0 THEN acc ELSE Append(acc, carry)
    ELSE LET p == a[Len(acc) + 1] * k + carry
         IN  BMulSmallFrom(a, k, p \div Base, Append(acc, p % Base))

BMulSmall(a, k) ==
    IF k = 0 \/ a = <<>> THEN <<>>
    ELSE IF k = 1 THEN a
    ELSE Lib("BMulSmallFrom", <<a, k, 0, <<>>>>)

\* a * Base^n
RECURSIVE BShiftLimbs(_, _)
BShiftLimbs(a, n) ==
    IF a = <<>> \/ n = 0 THEN a ELSE BShiftLimbs(<<0>> \o a, n - 1)

\* a * b: acc is a times the limbs of b below limb i
RECURSIVE BMulFrom(_, _, _, _)
BMulFrom(a, b, i, acc) ==
    IF i > Len(b) THEN acc
    ELSE IF acc = <<>>
    THEN BMulFrom(a, b, i + 1, BShiftLimbs(Lib("BMulSmall", <<a, b[i]>>), i - 1))
    ELSE BMulFrom(a, b, i + 1,
                  Lib("BAdd", <<acc, BShiftLimbs(Lib("BMulSmall", <<a, b[i]>>), i - 1)>>))

BMul(a, b) ==
    IF a = <<>> \/ b = <<>> THEN <<>>
    ELSE IF Len(b) = 1 THEN Lib("BMulSmall", <<a, b[1]>>)
    ELSE Lib("BMulFrom", <<a, b, 1, <<>>>>)

\* <<floor(a / k), a mod k>> for 0 < k < Base: acc holds the limbs of the
\* quotient found so far, from the top limb of a downwards
RECURSIVE BDivModSmallFrom(_, _, _, _)
BDivModSmallFrom(a, k, rem, acc) ==
    IF Len(acc) >= Len(a) THEN <<BNorm(acc), rem>>
    ELSE LET t == rem * Base + a[Len(a) - Len(acc)]
         IN  BDivModSmallFrom(a, k, t % k, <<t \div k>> \o acc)

BDivModSmall(a, k) ==
    IF k = 1 THEN <<a, 0>> ELSE Lib("BDivModSmallFrom", <<a, k, 0, <<>>>>)

BDivSmall(a, k) == Lib("BDivModSmall", <<a, k>>)[1]

\* a * 2^n
BShl(a, n) ==
    BShiftLimbs(Lib("BMulSmall", <<a, Pow2(n % LimbBits)>>), n \div LimbBits)

\* floor(a / 2^n)
BShr(a, n) ==
    LET k == n \div LimbBits
    IN  IF k >= Len(a) THEN <<>>
        ELSE Lib("BDivSmall", <<SubSeq(a, k + 1, Len(a)), Pow2(n % LimbBits)>>)

RECURSIVE IntBitLen(_)
IntBitLen(n) == IF n = 0 THEN 0 ELSE 1 + IntBitLen(n \div 2)

\* the number of bits of a: 0 for zero, else floor(log2 a) + 1
BBitLen(a) ==
    IF a = <<>> THEN 0 ELSE (Len(a) - 1) * LimbBits + IntBitLen(a[Len(a)])

BIsOdd(a) == a # <<>> /\ a[1] % 2 = 1

\* The largest q <= qhat with b * q <= rem
RECURSIVE BFitDigit(_, _, _)
BFitDigit(rem, b, qhat) ==
    IF BCmp(Lib("BMulSmall", <<b, qhat>>), rem) <= 0 THEN qhat
    ELSE BFitDigit(rem, b, qhat - 1)

\* Long division of a by b (the top limb of b is at least Base / 2): quo holds
\* the limbs of the quotient found so far, from the top limb of a downwards,
\* and rem the remainder of the limbs of a used so far
RECURSIVE BLongDivFrom(_, _, _, _)
BLongDivFrom(a, b, quo, rem) ==
    IF Len(quo) >= Len(a) THEN <<BNorm(quo), rem>>
    ELSE LET r    == BNorm(<<a[Len(a) - Len(quo)]>> \o rem)
             n    == Len(b)
             est  == (BLimb(r, n + 1) * Base + BLimb(r, n)) \div b[n]
             q    == Lib("BFitDigit", <<r, b, IF est >= Base THEN Base - 1 ELSE est>>)
         IN  IF BCmp(r, b) < 0 THEN BLongDivFrom(a, b, <<0>> \o quo, r)
             ELSE IF q = 1 THEN BLongDivFrom(a, b, <<1>> \o quo, Lib("BSub", <<r, b>>))
             ELSE BLongDivFrom(a, b, <<q>> \o quo,
                               Lib("BSub", <<r, Lib("BMulSmall", <<b, q>>)>>))

\* <<floor(a / b), a mod b>> for b > 0
BDivMod(a, b) ==
    IF Len(b) = 1
    THEN LET qr == Lib("BDivModSmall", <<a, b[1]>>) IN <<qr[1], BFromInt(qr[2])>>
    ELSE LET t  == LimbBits - IntBitLen(b[Len(b)])
             qr == Lib("BLongDivFrom",
                       <<Lib("BShl", <<a, t>>), Lib("BShl", <<b, t>>), <<>>, <<>>>>)
         IN  <<qr[1], Lib("BShr", <<qr[2], t>>)>>

\* 10^n
RECURSIVE BPow10(_)
BPow10(n) == IF n < 5 THEN <<10 ^ n>> ELSE Lib("BMulSmall", <<BPow10(n - 4), 10 ^ 4>>)

(***************************************************************************)
(* binary64 values.  A finite non-zero value is sign * m * 2^e with        *)
(* 2^52 <= m < 2^53.  The sign of zero is not kept: no operation of the    *)
(* calculator distinguishes -0 from 0 (toString gives "0" for both).       *)
(* Subnormal values (below 2^-1022) are not reached by the calculator and  *)
(* are not rounded specially.                                              *)
(***************************************************************************)
DNaN == [k |-> "nan"]

DZero == [k |-> "zero"]

DInf(neg) == [k |-> "inf", neg |-> neg]

DFin(neg, m, e) ==
    IF e + 53 > 1024 THEN DInf(neg) ELSE [k |-> "fin", neg |-> neg, m |-> m, e |-> e]

IsNaN(x) == x.k = "nan"

IsFinite(x) == x.k \in {"zero", "fin"}

IsZero(x) == x.k = "zero"

\* The binary64 value nearest to M * 2^e (M > 0; sticky: the exact value is a
\* little above M * 2^e), ties to even.
RoundToDouble(neg, M, e, sticky) ==
    LET n == BBitLen(M)
    IN  IF n = 0 THEN DZero
        ELSE IF n <= 53 THEN DFin(neg, Lib("BShl", <<M, 53 - n>>), e - (53 - n))
        ELSE LET d    == n - 53
                 q    == Lib("BShr", <<M, d>>)
                 r    == Lib("BSub", <<M, Lib("BShl", <<q, d>>)>>)
                 c    == BCmp(r, Lib("BShl", <<<<1>>, d - 1>>))
                 up   == c > 0 \/ (c = 0 /\ (sticky \/ BIsOdd(q)))
                 q1   == IF up THEN Lib("BAdd", <<q, <<1>>>>) ELSE q
             IN  IF BBitLen(q1) > 53 THEN DFin(neg, Lib("BShr", <<q1, 1>>), e + d + 1)
                 ELSE DFin(neg, q1, e + d)

\* The binary64 value nearest to N / D (N, D > 0)
RatioToDouble(neg, N, D) ==
    IF N = <<>> THEN DZero
    ELSE LET need == 56 + BBitLen(D) - BBitLen(N)
             s    == IF need > 0 THEN need ELSE 0
             qr   == Lib("BDivMod", <<Lib("BShl", <<N, s>>), D>>)
         IN  Lib("RoundToDouble", <<neg, qr[1], 0 - s, qr[2] # <<>>>>)

\* The binary64 value of the integer sign * N
IntToDouble(neg, N) == Lib("RoundToDouble", <<neg, N, 0, FALSE>>)

\* x + y when negY is FALSE, x - y when it is TRUE
DAddSub(x, y, negY) ==
    IF IsNaN(x) \/ IsNaN(y) THEN DNaN
    ELSE IF x.k = "inf" \/ y.k = "inf"
    THEN IF x.k = "inf" /\ y.k = "inf"
         THEN IF x.neg = (y.neg # negY) THEN x ELSE DNaN
         ELSE IF x.k = "inf" THEN x ELSE DInf(y.neg # negY)
    ELSE IF IsZero(y) THEN x
    ELSE IF IsZero(x) THEN DFin(y.neg # negY, y.m, y.e)
    ELSE LET e  == IF x.e <= y.e THEN x.e ELSE y.e
             X  == Lib("BShl", <<x.m, x.e - e>>)
             Y  == Lib("BShl", <<y.m, y.e - e>>)
             yn == (y.neg # negY)
             c  == BCmp(X, Y)
         IN  IF x.neg = yn
             THEN Lib("RoundToDouble", <<x.neg, Lib("BAdd", <<X, Y>>), e, FALSE>>)
             ELSE IF c = 0 THEN DZero
             ELSE IF c > 0
             THEN Lib("RoundToDouble", <<x.neg, Lib("BSub", <<X, Y>>), e, FALSE>>)
             ELSE Lib("RoundToDouble", <<yn, Lib("BSub", <<Y, X>>), e, FALSE>>)

DAdd(x, y) == Lib("DAddSub", <<x, y, FALSE>>)

DSub(x, y) == Lib("DAddSub", <<x, y, TRUE>>)

DMul(x, y) ==
    IF IsNaN(x) \/ IsNaN(y) THEN DNaN
    ELSE IF x.k = "inf" \/ y.k = "inf"
    THEN IF IsZero(x) \/ IsZero(y) THEN DNaN ELSE DInf(x.neg # y.neg)
    ELSE IF IsZero(x) \/ IsZero(y) THEN DZero
    ELSE Lib("RoundToDouble",
             <<x.neg # y.neg, Lib("BMul", <<x.m, y.m>>), x.e + y.e, FALSE>>)

DDiv(x, y) ==
    IF IsNaN(x) \/ IsNaN(y) THEN DNaN
    ELSE IF x.k = "inf"
    THEN IF y.k = "inf" THEN DNaN ELSE DInf(x.neg # (y.k = "fin" /\ y.neg))
    ELSE IF y.k = "inf" THEN DZero
    ELSE IF IsZero(y) THEN IF IsZero(x) THEN DNaN ELSE DInf(x.neg)
    ELSE IF IsZero(x) THEN DZero
    ELSE LET qr == Lib("BDivMod", <<Lib("BShl", <<x.m, 56>>), y.m>>)
         IN  Lib("RoundToDouble",
                 <<x.neg # y.neg, qr[1], x.e - y.e - 56, qr[2] # <<>>>>)

\* The remainder of JavaScript's %: exact, with the sign of the dividend
DMod(x, y) ==
    IF IsNaN(x) \/ IsNaN(y) \/ x.k = "inf" \/ IsZero(y) THEN DNaN
    ELSE IF y.k = "inf" \/ IsZero(x) THEN x
    ELSE IF x.e >= y.e
    THEN Lib("RoundToDouble",
             <<x.neg, Lib("BDivMod", <<Lib("BShl", <<x.m, x.e - y.e>>), y.m>>)[2],
               y.e, FALSE>>)
    ELSE LET Y == Lib("BShl", <<y.m, y.e - x.e>>)
         IN  IF BCmp(x.m, Y) < 0 THEN x
             ELSE Lib("RoundToDouble",
                      <<x.neg, Lib("BDivMod", <<x.m, Y>>)[2], x.e, FALSE>>)

\* Math.round: the integer nearest to x, ties towards +Infinity
DRound(x) ==
    IF x.k # "fin" \/ x.e >= 0 THEN x
    ELSE LET E    == 0 - x.e
             fl   == Lib("BShr", <<x.m, E>>)
             c    == BCmp(Lib("BSub", <<x.m, Lib("BShl", <<fl, E>>)>>),
                          Lib("BShl", <<<<1>>, E - 1>>))
             up   == IF x.neg THEN c > 0 ELSE c >= 0
         IN  Lib("IntToDouble",
                 <<x.neg, IF up THEN Lib("BAdd", <<fl, <<1>>>>) ELSE fl>>)

\* Number.EPSILON, 2^-52
EPSILON == DFin(FALSE, Lib("BShl", <<<<1>>, 52>>), 0 - 104)

\* The literal 100000000
HundredMillion == Lib("IntToDouble", <<FALSE, Lib("BPow10", <<8>>)>>)

(***************************************************************************)
(* Strings: sequences of one-character strings.                            *)
(***************************************************************************)
Digits == {"0", "1", "2", "3", "4", "5", "6", "7", "8", "9"}

DigitChars == <<"0", "1", "2", "3", "4", "5", "6", "7", "8", "9">>

DigitVal(c) == (CHOOSE i \in 1..10 : DigitChars[i] = c) - 1

\* The first index of c in s, 0 when there is none (String.prototype.indexOf + 1)
RECURSIVE IndexFrom(_, _, _)
IndexFrom(s, c, i) ==
    IF i > Len(s) THEN 0 ELSE IF s[i] = c THEN i ELSE IndexFrom(s, c, i + 1)

Includes(s, c) == IndexFrom(s, c, 1) # 0

\* The index of the last character of the longest run of digits of s that
\* starts at index i (i - 1 when s[i] is no digit)
RECURSIVE DigitsEnd(_, _)
DigitsEnd(s, i) ==
    IF i <= Len(s) /\ s[i] \in Digits THEN DigitsEnd(s, i + 1) ELSE i - 1

\* The natural number written by the digits ds: acc is the number written by
\* the digits before index i
RECURSIVE BFromDigits(_, _, _)
BFromDigits(ds, i, acc) ==
    IF i > Len(ds) THEN acc
    ELSE IF acc = <<>> THEN BFromDigits(ds, i + 1, BFromInt(DigitVal(ds[i])))
    ELSE BFromDigits(ds, i + 1,
                     Lib("BAdd", <<Lib("BMulSmall", <<acc, 10>>),
                                   BFromInt(DigitVal(ds[i]))>>))

RECURSIVE IntFromDigits(_, _, _)
IntFromDigits(ds, i, acc) ==
    IF i > Len(ds) THEN acc ELSE IntFromDigits(ds, i + 1, acc * 10 + DigitVal(ds[i]))

\* The decimal digits of a, most significant first; <<>> for zero: acc holds
\* the digits of a found so far and rest is a without them
RECURSIVE BToDigitsFrom(_, _)
BToDigitsFrom(rest, acc) ==
    IF rest = <<>> THEN acc
    ELSE LET qr == Lib("BDivModSmall", <<rest, 10>>)
         IN  IF qr[1] = <<>> THEN <<DigitChars[qr[2] + 1]>> \o acc
             ELSE BToDigitsFrom(qr[1], <<DigitChars[qr[2] + 1]>> \o acc)

BToDigits(a) == Lib("BToDigitsFrom", <<a, <<>>>>)

RECURSIVE IntToDigits(_)
IntToDigits(n) ==
    IF n < 10 THEN <<DigitChars[n + 1]>>
    ELSE Append(IntToDigits(n \div 10), DigitChars[(n % 10) + 1])

RECURSIVE Zeros(_)
Zeros(n) == IF n <= 0 THEN <<>> ELSE <<"0">> \o Zeros(n - 1)

InfinityStr == <<"I", "n", "f", "i", "n", "i", "t", "y">>

(***************************************************************************)
(* parseFloat: the value of the longest prefix of s that is a decimal      *)
(* literal ([+-] digits [. digits] [e [+-] digits], or Infinity), NaN when *)
(* there is none.  The operand strings hold no white space.                *)
(***************************************************************************)
ParseFloat(s) ==
    LET signed == Len(s) > 0 /\ s[1] \in {"-", "+"}
        neg    == Len(s) > 0 /\ s[1] = "-"
        b      == IF signed THEN Tail(s) ELSE s
        iEnd   == DigitsEnd(b, 1)
        hasDot == iEnd < Len(b) /\ b[iEnd + 1] = "."
        fEnd   == IF hasDot THEN DigitsEnd(b, iEnd + 2) ELSE iEnd
        int    == SubSeq(b, 1, iEnd)
        frac   == IF hasDot THEN SubSeq(b, iEnd + 2, fEnd) ELSE <<>>
        hasE   == fEnd < Len(b) /\ b[fEnd + 1] \in {"e", "E"}
        eSign  == hasE /\ fEnd + 1 < Len(b) /\ b[fEnd + 2] \in {"-", "+"}
        eFrom  == IF eSign THEN fEnd + 3 ELSE fEnd + 2
        eEnd   == IF hasE THEN DigitsEnd(b, eFrom) ELSE 0
        hasExp == hasE /\ eEnd >= eFrom
        expAbs == IF hasExp THEN IntFromDigits(SubSeq(b, eFrom, eEnd), 1, 0) ELSE 0
        exp    == IF hasExp /\ eSign /\ b[fEnd + 2] = "-" THEN 0 - expAbs ELSE expAbs
        D      == Lib("BFromDigits", <<int \o frac, 1, <<>>>>)
        k      == Len(frac) - exp
    IN  IF Len(b) >= 8 /\ SubSeq(b, 1, 8) = InfinityStr THEN DInf(neg)
        ELSE IF int = <<>> /\ frac = <<>> THEN DNaN
        ELSE IF D = <<>> THEN DZero
        ELSE IF k <= 0
        THEN Lib("IntToDouble", <<neg, Lib("BMul", <<D, Lib("BPow10", <<0 - k>>)>>)>>)
        ELSE Lib("RatioToDouble", <<neg, D, Lib("BPow10", <<k>>)>>)

(***************************************************************************)
(* Number.prototype.toString (radix 10): the shortest decimal s * 10^(n-k) *)
(* with k digits whose nearest binary64 value is x, written without an     *)
(* exponent when 10^-7 <= |x| < 10^21.                                     *)
(***************************************************************************)
\* x = XNum(x) / 2^XDen(x)
XNum(x) == IF x.e >= 0 THEN Lib("BShl", <<x.m, x.e>>) ELSE x.m

XDen(x) == IF x.e >= 0 THEN 0 ELSE 0 - x.e

\* For 0 < x < 1: the number of zeros between the point and the first digit
RECURSIVE LeadingZeros(_, _)
LeadingZeros(x, z) ==
    IF BCmp(Lib("BMul", <<x.m, Lib("BPow10", <<z + 1>>)>>),
            Lib("BShl", <<<<1>>, XDen(x)>>)) >= 0
    THEN z
    ELSE LeadingZeros(x, z + 1)

\* n with 10^(n-1) <= |x| < 10^n
DecimalExponent(x) ==
    LET ip == Lib("BShr", <<Lib("XNum", <<x>>), XDen(x)>>)
    IN  IF ip # <<>> THEN Len(Lib("BToDigits", <<ip>>))
        ELSE 0 - Lib("LeadingZeros", <<x, 0>>)

\* The integer nearest to |x| * 10^a / 10^b
ScaledNearest(x, a, b) ==
    LET num == Lib("BAdd",
                   <<Lib("BMul", <<Lib("BShl", <<Lib("XNum", <<x>>), 1>>),
                                   Lib("BPow10", <<a>>)>>),
                     Lib("BShl", <<Lib("BPow10", <<b>>), XDen(x)>>)>>)
    IN  Lib("BDivMod", <<Lib("BShr", <<num, XDen(x) + 1>>), Lib("BPow10", <<b>>)>>)[1]

\* Is |x| the binary64 value nearest to s * 10^b / 10^a ?
RoundTrips(x, s, a, b) ==
    LET L    == Lib("BShl", <<Lib("BMul", <<s, Lib("BPow10", <<b>>)>>), XDen(x)>>)
        R    == Lib("BMul", <<Lib("XNum", <<x>>), Lib("BPow10", <<a>>)>>)
        U    == Lib("BMul", <<Lib("BShl", <<<<1>>, IF x.e >= 0 THEN x.e ELSE 0>>),
                              Lib("BPow10", <<a>>)>>)
        c    == BCmp(L, R)
        diff == IF c >= 0 THEN Lib("BSub", <<L, R>>) ELSE Lib("BSub", <<R, L>>)
        low  == c < 0 /\ x.m = Lib("BShl", <<<<1>>, 52>>)
        d2   == BCmp(Lib("BShl", <<diff, IF low THEN 2 ELSE 1>>), U)
    IN  d2 < 0 \/ (d2 = 0 /\ ~BIsOdd(x.m))

\* Does some decimal of k digits have |x| as its nearest binary64 value?  (With
\* 17 digits one always does.)  n is DecimalExponent(x).
Fits(x, n, k) ==
    \/ k >= 17
    \/ LET a == IF k > n THEN k - n ELSE 0
           b == IF n > k THEN n - k ELSE 0
       IN  Lib("RoundTrips", <<x, Lib("ScaledNearest", <<x, a, b>>), a, b>>)

\* <<digits, n>> of the shortest decimal of |x|: the least k that fits (if k
\* digits fit, so do k + 1)
Shortest(x, n) ==
    LET k  == CHOOSE j \in 1..17 :
                  Lib("Fits", <<x, n, j>>) /\ (j = 1 \/ ~Lib("Fits", <<x, n, j - 1>>))
        ds == Lib("BToDigits",
                  <<Lib("ScaledNearest", <<x, IF k > n THEN k - n ELSE 0,
                                           IF n > k THEN n - k ELSE 0>>)>>)
    IN  IF Len(ds) > k THEN <<SubSeq(ds, 1, k), n + 1>> ELSE <<ds, n>>

\* The digits ds without their trailing zeros
RECURSIVE StripZeros(_)
StripZeros(ds) ==
    IF Len(ds) > 1 /\ ds[Len(ds)] = "0" THEN StripZeros(SubSeq(ds, 1, Len(ds) - 1))
    ELSE ds

NumberToString(x) ==
    IF x.k = "nan" THEN <<"N", "a", "N">>
    ELSE IF x.k = "zero" THEN <<"0">>
    ELSE IF x.k = "inf" THEN (IF x.neg THEN <<"-">> ELSE <<>>) \o InfinityStr
    ELSE LET sn   == Lib("Shortest", <<x, Lib("DecimalExponent", <<x>>)>>)
             ds   == StripZeros(sn[1])
             k    == Len(ds)
             n    == sn[2]
             e    == n - 1
             body == IF k <= n /\ n <= 21 THEN ds \o Zeros(n - k)
                     ELSE IF 0 < n /\ n <= 21
                          THEN SubSeq(ds, 1, n) \o <<".">> \o SubSeq(ds, n + 1, k)
                     ELSE IF 0 - 6 < n /\ n <= 0
                          THEN <<"0", ".">> \o Zeros(0 - n) \o ds
                     ELSE (IF k = 1 THEN ds ELSE <<ds[1], ".">> \o Tail(ds))
                          \o <<"e", IF e < 0 THEN "-" ELSE "+">>
                          \o IntToDigits(IF e < 0 THEN 0 - e ELSE e)
         IN  (IF x.neg THEN <<"-">> ELSE <<>>) \o body

(***************************************************************************)
(* Calculator.getDisplayNumber.  toLocaleString('en', {maximumFractionDigits*)
(* : 0}) writes the integer nearest to the value (halves away from zero,   *)
(* the digits of the exact value) in groups of three.  It writes a minus   *)
(* sign for -0, the one place where the sign of zero shows: parseFloat     *)
(* gives -0 for a text of value zero that starts with "-", and negZero     *)
(* carries that to ToLocaleString.                                         *)
(***************************************************************************)
\* The character U+221E
InfinitySign == "\\u221E"

RECURSIVE Group(_)
Group(ds) ==
    IF Len(ds) <= 3 THEN ds
    ELSE Group(SubSeq(ds, 1, Len(ds) - 3)) \o <<",">> \o SubSeq(ds, Len(ds) - 2, Len(ds))

\* The integer nearest to |x|, for a finite x other than zero
NearestInteger(x) ==
    IF x.e >= 0 THEN Lib("BShl", <<x.m, x.e>>)
    ELSE LET E  == 0 - x.e
             fl == Lib("BShr", <<x.m, E>>)
             c  == BCmp(Lib("BSub", <<x.m, Lib("BShl", <<fl, E>>)>>),
                        Lib("BShl", <<<<1>>, E - 1>>))
         IN  IF c >= 0 THEN Lib("BAdd", <<fl, <<1>>>>) ELSE fl

ToLocaleString(x, negZero) ==
    IF x.k = "nan" THEN <<"N", "a", "N">>
    ELSE IF x.k = "inf" THEN (IF x.neg THEN <<"-">> ELSE <<>>) \o <<InfinitySign>>
    ELSE IF x.k = "zero" THEN (IF negZero THEN <<"-">> ELSE <<>>) \o <<"0">>
    ELSE LET n == Lib("NearestInteger", <<x>>)
         IN  (IF x.neg THEN <<"-">> ELSE <<>>)
             \o (IF n = <<>> THEN <<"0">> ELSE Group(Lib("BToDigits", <<n>>)))

\* A getDisplayNumber that rounds the fraction to 8 places instead of cutting
\* it there (a fault to tell DisplayFormat by)
getDisplayNumberRounding(number) ==
    IF number = <<>> THEN <<>>
    ELSE LET dot         == IndexFrom(number, ".", 1)
             integerPart == IF dot = 0 THEN number ELSE SubSeq(number, 1, dot - 1)
             rest        == SubSeq(number, dot + 1, Len(number))
             dot2        == IndexFrom(rest, ".", 1)
             decimalPart == IF dot2 = 0 THEN rest ELSE SubSeq(rest, 1, dot2 - 1)
             integerDigits == Lib("ParseFloat", <<integerPart>>)
             integerDisplay ==
                 IF IsNaN(integerDigits) THEN <<>>
                 ELSE Lib("ToLocaleString",
                          <<integerDigits, integerPart # <<>> /\ integerPart[1] = "-">>)
             limitedDecimal ==
                 IF Len(decimalPart) <= 8 THEN decimalPart
                 ELSE IF DigitVal(decimalPart[9]) < 5 \/ decimalPart[8] = "9"
                 THEN SubSeq(decimalPart, 1, 8)
                 ELSE SubSeq(decimalPart, 1, 7)
                      \o <<DigitChars[DigitVal(decimalPart[8]) + 2]>>
         IN  IF dot # 0 THEN integerDisplay \o <<".">> \o limitedDecimal
             ELSE integerDisplay

getDisplayNumber(number) ==
    IF number = <<>> THEN <<>>
    ELSE LET dot         == IndexFrom(number, ".", 1)
             integerPart == IF dot = 0 THEN number ELSE SubSeq(number, 1, dot - 1)
             rest        == SubSeq(number, dot + 1, Len(number))
             dot2        == IndexFrom(rest, ".", 1)
             decimalPart == IF dot2 = 0 THEN rest ELSE SubSeq(rest, 1, dot2 - 1)
             integerDigits == Lib("ParseFloat", <<integerPart>>)
             integerDisplay ==
                 IF IsNaN(integerDigits) THEN <<>>
                 ELSE Lib("ToLocaleString",
                          <<integerDigits, integerPart # <<>> /\ integerPart[1] = "-">>)
             limitedDecimal ==
                 SubSeq(decimalPart, 1, IF Len(decimalPart) < 8 THEN Len(decimalPart) ELSE 8)
         IN  IF dot # 0 THEN integerDisplay \o <<".">> \o limitedDecimal
             ELSE integerDisplay

\* displayValue || '0'
OrZero(displayValue) == IF displayValue = <<>> THEN <<"0">> ELSE displayValue

(***************************************************************************)
(* Calculator.compute, as a function of the three fields it reads.         *)
(***************************************************************************)
Operations == {"+", "-", "×", "÷", "%"}

undefined == "undefined"

DivideByZero == "Cannot divide by zero!"

ModuloByZero == "Cannot modulo by zero!"

Overflow == "Result too large!"

NoOp == [kind |-> "return"]

Fail(message) == [kind |-> "error", message |-> message]

\* computation = Math.round((computation + Number.EPSILON) * 100000000) / 100000000
RoundResult(computation) ==
    Lib("DDiv",
        <<Lib("DRound",
              <<Lib("DMul", <<Lib("DAdd", <<computation, EPSILON>>), HundredMillion>>)>>),
          HundredMillion>>)

Done(computation) ==
    IF ~IsFinite(computation) THEN Fail(Overflow)
    ELSE [kind |-> "result",
          text |-> Lib("NumberToString", <<Lib("RoundResult", <<computation>>)>>)]

ComputeOutcome(previousOperand, operation, currentOperand) ==
    LET prev    == Lib("ParseFloat", <<previousOperand>>)
        current == Lib("ParseFloat", <<currentOperand>>)
    IN  IF IsNaN(prev) \/ IsNaN(current) THEN NoOp
        ELSE CASE operation = "+" -> Lib("Done", <<Lib("DAdd", <<prev, current>>)>>)
               [] operation = "-" -> Lib("Done", <<Lib("DSub", <<prev, current>>)>>)
               [] operation = "×" -> Lib("Done", <<Lib("DMul", <<prev, current>>)>>)
               [] operation = "÷" ->
                    IF IsZero(current) THEN Fail(DivideByZero)
                    ELSE Lib("Done", <<Lib("DDiv", <<prev, current>>)>>)
               [] operation = "%" ->
                    IF IsZero(current) THEN Fail(ModuloByZero)
                    ELSE Lib("Done", <<Lib("DMod", <<prev, current>>)>>)
               [] OTHER -> NoOp

\* An updateDisplay that leaves the operation out of the previous line (a
\* fault to tell RenderContract by)
updateDisplayNoSymbol(s) ==
    [current  |-> Lib("OrZero", <<Lib("getDisplayNumber", <<s.currentOperand>>)>>),
     previous |-> IF s.operation # undefined
                  THEN Lib("getDisplayNumber", <<s.previousOperand>>)
                  ELSE <<>>]

\* What updateDisplay writes to the two elements when the fields are s
updateDisplay(s) ==
    [current  |-> Lib("OrZero", <<Lib("getDisplayNumber", <<s.currentOperand>>)>>),
     previous |-> IF s.operation # undefined
                  THEN Lib("getDisplayNumber", <<s.previousOperand>>)
                       \o <<" ", s.operation>>
                  ELSE <<>>]

(***************************************************************************)
(* Lib applies the operator named f to the tuple a of its arguments.       *)
(***************************************************************************)
Lib1(f, x) ==
    CASE f = "BPow10" -> BPow10(x)
      [] f = "DRound" -> DRound(x)
      [] f = "BToDigits" -> BToDigits(x)
      [] f = "ParseFloat" -> ParseFloat(x)
      [] f = "XNum" -> XNum(x)
      [] f = "DecimalExponent" -> DecimalExponent(x)
      [] f = "NumberToString" -> NumberToString(x)
      [] f = "RoundResult" -> RoundResult(x)
      [] f = "Done" -> Done(x)
      [] f = "NearestInteger" -> NearestInteger(x)
      [] f = "getDisplayNumber" -> getDisplayNumber(x)
      [] f = "OrZero" -> OrZero(x)
      [] f = "updateDisplay" -> updateDisplay(x)

Lib2(f, x, y) ==
    CASE f = "BAdd" -> BAdd(x, y)
      [] f = "BSub" -> BSub(x, y)
      [] f = "BMulSmall" -> BMulSmall(x, y)
      [] f = "BMul" -> BMul(x, y)
      [] f = "BDivModSmall" -> BDivModSmall(x, y)
      [] f = "BDivSmall" -> BDivSmall(x, y)
      [] f = "BShl" -> BShl(x, y)
      [] f = "BShr" -> BShr(x, y)
      [] f = "BDivMod" -> BDivMod(x, y)
      [] f = "IntToDouble" -> IntToDouble(x, y)
      [] f = "DAdd" -> DAdd(x, y)
      [] f = "DSub" -> DSub(x, y)
      [] f = "DMul" -> DMul(x, y)
      [] f = "DDiv" -> DDiv(x, y)
      [] f = "DMod" -> DMod(x, y)
      [] f = "BToDigitsFrom" -> BToDigitsFrom(x, y)
      [] f = "LeadingZeros" -> LeadingZeros(x, y)
      [] f = "Shortest" -> Shortest(x, y)
      [] f = "ToLocaleString" -> ToLocaleString(x, y)

Lib3(f, x, y, z) ==
    CASE f = "BFitDigit" -> BFitDigit(x, y, z)
      [] f = "RatioToDouble" -> RatioToDouble(x, y, z)
      [] f = "DAddSub" -> DAddSub(x, y, z)
      [] f = "BFromDigits" -> BFromDigits(x, y, z)
      [] f = "ScaledNearest" -> ScaledNearest(x, y, z)
      [] f = "Fits" -> Fits(x, y, z)
      [] f = "ComputeOutcome" -> ComputeOutcome(x, y, z)

Lib4(f, x, y, z, w) ==
    CASE f = "BAddFrom" -> BAddFrom(x, y, z, w)
      [] f = "BSubFrom" -> BSubFrom(x, y, z, w)
      [] f = "BMulSmallFrom" -> BMulSmallFrom(x, y, z, w)
      [] f = "BMulFrom" -> BMulFrom(x, y, z, w)
      [] f = "BDivModSmallFrom" -> BDivModSmallFrom(x, y, z, w)
      [] f = "BLongDivFrom" -> BLongDivFrom(x, y, z, w)
      [] f = "RoundToDouble" -> RoundToDouble(x, y, z, w)
      [] f = "RoundTrips" -> RoundTrips(x, y, z, w)

Lib(f, a) ==
    CASE Len(a) = 1 -> Lib1(f, a[1])
      [] Len(a) = 2 -> Lib2(f, a[1], a[2])
      [] Len(a) = 3 -> Lib3(f, a[1], a[2], a[3])
      [] Len(a) = 4 -> Lib4(f, a[1], a[2], a[3], a[4])

(***************************************************************************)
(* The Calculator object and the page around it.                           *)
(*                                                                         *)
(* currentOperand, previousOperand, operation and shouldResetDisplay are   *)
(* the fields of Calculator.  color is the style colour showError puts on  *)
(* the current-operand element.  timers holds one entry per setTimeout     *)
(* callback of showError that has not run yet, oldest first; an entry is   *)
(* TRUE once a later input handler has run.  currentOperandElement and     *)
(* previousOperandElement are the textContent of the two display elements. *)
(* warned is what the last handler passed to console.warn.  last names the *)
(* handler that ran last and its argument, typed is the run of tokens      *)
(* handed to appendNumber since any other handler ran, and cmds counts the *)
(* handlers run so far.                                                    *)
(***************************************************************************)
VARIABLES currentOperand, previousOperand, operation, shouldResetDisplay,
          color, timers, currentOperandElement, previousOperandElement,
          warned, last, typed, cmds

fields == <<currentOperand, previousOperand, operation, shouldResetDisplay>>

vars == <<currentOperand, previousOperand, operation, shouldResetDisplay,
          color, timers, currentOperandElement, previousOperandElement,
          warned, last, typed, cmds>>

maxDigits == 12

ErrorColor == "#ff6b6b"

NoWarning == "none"

this ==
    [currentOperand |-> currentOperand, previousOperand |-> previousOperand,
     operation |-> operation, shouldResetDisplay |-> shouldResetDisplay]

Quiet(s) == [state |-> s, warning |-> NoWarning]

\* A clear that forgets the reset flag (a fault to tell ClearYieldsIdle by)
clearKeepsFlag ==
    [currentOperand |-> <<>>, previousOperand |-> <<>>,
     operation |-> undefined, shouldResetDisplay |-> TRUE]

clear ==
    [currentOperand |-> <<>>, previousOperand |-> <<>>,
     operation |-> undefined, shouldResetDisplay |-> FALSE]

\* A delete that does not look at shouldResetDisplay (a fault to tell
\* DeleteSemantics by)
deleteNoReset(s) ==
    [s EXCEPT !.currentOperand =
                  SubSeq(s.currentOperand, 1, Len(s.currentOperand) - 1)]

delete(s) ==
    IF s.shouldResetDisplay THEN clear
    ELSE [s EXCEPT !.currentOperand =
                       SubSeq(s.currentOperand, 1, Len(s.currentOperand) - 1)]

\* Faulty variants of appendNumber: one that stops a character short of
\* maxDigits, one that lets one character more in, one without the check for a
\* second decimal point (to tell TypingYieldsInput, RejectedInputIsNoOp and
\* AtMostOneDot by)
appendNumberShort(s, number) ==
    LET t == IF s.shouldResetDisplay
             THEN [s EXCEPT !.currentOperand = <<>>, !.shouldResetDisplay = FALSE]
             ELSE s
    IN  IF number = "." /\ Includes(t.currentOperand, ".") THEN t
        ELSE IF Len(t.currentOperand) >= maxDigits - 1 THEN t
        ELSE [t EXCEPT !.currentOperand = Append(t.currentOperand, number)]

appendNumberLong(s, number) ==
    LET t == IF s.shouldResetDisplay
             THEN [s EXCEPT !.currentOperand = <<>>, !.shouldResetDisplay = FALSE]
             ELSE s
    IN  IF number = "." /\ Includes(t.currentOperand, ".") THEN t
        ELSE IF Len(t.currentOperand) > maxDigits THEN t
        ELSE [t EXCEPT !.currentOperand = Append(t.currentOperand, number)]

appendNumberAnyDot(s, number) ==
    LET t == IF s.shouldResetDisplay
             THEN [s EXCEPT !.currentOperand = <<>>, !.shouldResetDisplay = FALSE]
             ELSE s
    IN  IF Len(t.currentOperand) >= maxDigits THEN t
        ELSE [t EXCEPT !.currentOperand = Append(t.currentOperand, number)]

appendNumber(s, number) ==
    LET t == IF s.shouldResetDisplay
             THEN [s EXCEPT !.currentOperand = <<>>, !.shouldResetDisplay = FALSE]
             ELSE s
    IN  IF number = "." /\ Includes(t.currentOperand, ".") THEN t
        ELSE IF Len(t.currentOperand) >= maxDigits THEN t
        ELSE [t EXCEPT !.currentOperand = Append(t.currentOperand, number)]

\* An end of compute that empties currentOperand when it reports an error (a
\* fault to tell ZeroDivisorNoMutation by)
StoreLosingOperand(s, out) ==
    CASE out.kind = "result" ->
           Quiet([currentOperand |-> out.text, previousOperand |-> <<>>,
                  operation |-> undefined, shouldResetDisplay |-> TRUE])
      [] out.kind = "error" ->
           [state |-> [s EXCEPT !.currentOperand = <<>>], warning |-> out.message]
      [] OTHER -> Quiet(s)

\* An end of compute that stores the result and leaves previousOperand as it
\* was (a fault to tell OperationIffPrevious by)
StoreKeepingPrevious(s, out) ==
    CASE out.kind = "result" ->
           Quiet([currentOperand |-> out.text, previousOperand |-> s.previousOperand,
                  operation |-> undefined, shouldResetDisplay |-> TRUE])
      [] out.kind = "error" -> [state |-> s, warning |-> out.message]
      [] OTHER -> Quiet(s)

\* An end of compute that sets shouldResetDisplay on every return (a fault to
\* tell IncompleteEqualsIsNoOp by)
StoreFlagging(s, out) ==
    CASE out.kind = "result" ->
           Quiet([currentOperand |-> out.text, previousOperand |-> <<>>,
                  operation |-> undefined, shouldResetDisplay |-> TRUE])
      [] out.kind = "error" -> [state |-> s, warning |-> out.message]
      [] OTHER -> Quiet([s EXCEPT !.shouldResetDisplay = TRUE])

\* The end of compute: out is what the parsing and the switch came to
Store(s, out) ==
    CASE out.kind = "result" ->
           Quiet([currentOperand |-> out.text, previousOperand |-> <<>>,
                  operation |-> undefined, shouldResetDisplay |-> TRUE])
      [] out.kind = "error" -> [state |-> s, warning |-> out.message]
      [] OTHER -> Quiet(s)

compute(s) ==
    Store(s, Lib("ComputeOutcome",
                 <<s.previousOperand, s.operation, s.currentOperand>>))

\* An end of chooseOperation that leaves shouldResetDisplay as it was (a fault
\* to tell ResultStateShape by)
LatchKeepingFlag(op, c) ==
    [state |-> [currentOperand |-> <<>>, previousOperand |-> c.state.currentOperand,
                operation |-> op, shouldResetDisplay |-> c.state.shouldResetDisplay],
     warning |-> c.warning]

\* The end of chooseOperation: c is what the call of compute, if any, left
Latch(op, c) ==
    [state |-> [currentOperand |-> <<>>, previousOperand |-> c.state.currentOperand,
                operation |-> op, shouldResetDisplay |-> FALSE],
     warning |-> c.warning]

\* A chooseOperation that latches the operator without computing the pending
\* one (a fault to tell ChainedCalculation by)
chooseOperationNoCompute(s, op) ==
    IF s.currentOperand = <<>> /\ s.previousOperand = <<>> THEN Quiet(s)
    ELSE IF s.currentOperand = <<>> THEN Quiet([s EXCEPT !.operation = op])
    ELSE Quiet([currentOperand |-> <<>>, previousOperand |-> s.currentOperand,
                operation |-> op, shouldResetDisplay |-> FALSE])

\* A chooseOperation without the early return that only replaces the
\* operation (a fault to tell OperatorOnEmptyOperand by)
chooseOperationAlwaysLatch(s, op) ==
    IF s.currentOperand = <<>> /\ s.previousOperand = <<>> THEN Quiet(s)
    ELSE Latch(op, IF s.previousOperand # <<>> /\ ~s.shouldResetDisplay
                   THEN compute(s) ELSE Quiet(s))

chooseOperation(s, op) ==
    IF s.currentOperand = <<>> /\ s.previousOperand = <<>> THEN Quiet(s)
    ELSE IF s.currentOperand = <<>> THEN Quiet([s EXCEPT !.operation = op])
    ELSE Latch(op, IF s.previousOperand # <<>> /\ ~s.shouldResetDisplay
                   THEN compute(s) ELSE Quiet(s))

\* The two elements after updateDisplay has written shown to them
Refreshed(shown) ==
    /\ currentOperandElement = shown.current
    /\ previousOperandElement = shown.previous

\* updateDisplay writes shown to the two elements
Refresh(shown) ==
    /\ currentOperandElement' = shown.current
    /\ previousOperandElement' = shown.previous

(***************************************************************************)
(* One input handler of UIController: the Calculator method it calls has   *)
(* left the fields as r.state; when the method went through showError,     *)
(* the element is coloured, the message is warned and one more timer is    *)
(* pending.  The handler ends with updateDisplay, which writes over the    *)
(* text showError has put in the element.                                  *)
(***************************************************************************)
Handled(cmd, arg, r) ==
    /\ currentOperand' = r.state.currentOperand
    /\ previousOperand' = r.state.previousOperand
    /\ operation' = r.state.operation
    /\ shouldResetDisplay' = r.state.shouldResetDisplay
    /\ warned' = r.warning
    /\ color' = IF r.warning = NoWarning THEN color ELSE ErrorColor
    /\ timers' = [i \in DOMAIN timers |-> TRUE]
                 \o (IF r.warning = NoWarning THEN <<>> ELSE <<FALSE>>)
    /\ Refresh(Lib("updateDisplay", <<r.state>>))
    /\ last' = [cmd |-> cmd, arg |-> arg]
    /\ typed' = IF cmd = "number" THEN Append(typed, arg) ELSE <<>>
    /\ cmds' = cmds + 1

HandleNumberInput(number) ==
    Handled("number", number, Quiet(appendNumber(this, number)))

HandleOperatorInput(operator) ==
    Handled("operator", operator, chooseOperation(this, operator))

HandleEqualsInput == Handled("equals", "", compute(this))

HandleClearInput == Handled("clear", "", Quiet(clear))

HandleDeleteInput == Handled("delete", "", Quiet(delete(this)))

\* A callback that resets the colour and the fields but does not refresh the
\* display (a fault to tell ErrorRecovery by)
AutoClearNoRefresh ==
    /\ timers # <<>>
    /\ timers' = Tail(timers)
    /\ color' = ""
    /\ currentOperand' = clear.currentOperand
    /\ previousOperand' = clear.previousOperand
    /\ operation' = clear.operation
    /\ shouldResetDisplay' = clear.shouldResetDisplay
    /\ UNCHANGED <<currentOperandElement, previousOperandElement>>
    /\ warned' = NoWarning
    /\ last' = [cmd |-> "timeout", arg |-> ""]
    /\ typed' = <<>>
    /\ UNCHANGED cmds

\* The callback showError gave to setTimeout.
AutoClear ==
    /\ timers # <<>>
    /\ timers' = Tail(timers)
    /\ color' = ""
    /\ currentOperand' = clear.currentOperand
    /\ previousOperand' = clear.previousOperand
    /\ operation' = clear.operation
    /\ shouldResetDisplay' = clear.shouldResetDisplay
    /\ Refresh(Lib("updateDisplay", <<clear>>))
    /\ warned' = NoWarning
    /\ last' = [cmd |-> "timeout", arg |-> ""]
    /\ typed' = <<>>
    /\ UNCHANGED cmds

Init ==
    /\ currentOperand = clear.currentOperand
    /\ previousOperand = clear.previousOperand
    /\ operation = clear.operation
    /\ shouldResetDisplay = clear.shouldResetDisplay
    /\ color = ""
    /\ timers = <<>>
    /\ Refreshed(Lib("updateDisplay", <<clear>>))
    /\ warned = NoWarning
    /\ last = [cmd |-> "constructor", arg |-> ""]
    /\ typed = <<>>
    /\ cmds = 0

Tokens == {"0", "3", "4", "."}

MaxCmds == 5

Next ==
    \/ /\ cmds < MaxCmds
       /\ \/ \E number \in Tokens : HandleNumberInput(number)
          \/ \E operator \in Operations : HandleOperatorInput(operator)
          \/ HandleEqualsInput
          \/ HandleClearInput
          \/ HandleDeleteInput
    \/ AutoClear

Spec == Init /\ [][Next]_vars

(***************************************************************************)
(* Typing alone: number keys only, for long enough to fill currentOperand  *)
(* and go on.                                                              *)
(***************************************************************************)
TypingTokens == {"5", "."}

TypingCmds == 13

NextTyping ==
    cmds < TypingCmds /\ \E number \in TypingTokens : HandleNumberInput(number)

SpecTyping == Init /\ [][NextTyping]_vars

(***************************************************************************)
(* Longer sessions on fewer keys: one operator key and three number keys.  *)
(***************************************************************************)
DeepTokens == {"0", "3", "."}

DeepOperations == {"÷"}

DeepCmds == 8

NextDeep ==
    \/ /\ cmds < DeepCmds
       /\ \/ \E number \in DeepTokens : HandleNumberInput(number)
          \/ \E operator \in DeepOperations : HandleOperatorInput(operator)
          \/ HandleEqualsInput
          \/ HandleClearInput
          \/ HandleDeleteInput
    \/ AutoClear

SpecDeep == Init /\ [][NextDeep]_vars

(***************************************************************************)
(* Typing alone on three number keys, a zero among them.                   *)
(***************************************************************************)
FormatTokens == {"0", "1", "."}

FormatCmds == 10

NextFormat ==
    cmds < FormatCmds /\ \E number \in FormatTokens : HandleNumberInput(number)

SpecFormat == Init /\ [][NextFormat]_vars

(***************************************************************************)
(* The sessions of Spec with the timer of setTimeout running: a pending    *)
(* callback is called in the end.                                          *)
(***************************************************************************)
SpecFair == Init /\ [][Next]_vars /\ WF_vars(AutoClear)

(***************************************************************************)
(* Properties.                                                             *)
(***************************************************************************)
Idle ==
    /\ currentOperand = <<>>
    /\ previousOperand = <<>>
    /\ operation = undefined
    /\ shouldResetDisplay = FALSE

Dots(s) == Cardinality({i \in DOMAIN s : s[i] = "."})

\* A step of the handler cmd
Ran(cmd) == last'.cmd = cmd

(***************************************************************************)
(* Decimal arithmetic on operand strings, exact: the value of a string is  *)
(* (-1)^neg * n / 10^k, and the value of an operation on two strings is    *)
(* (-1)^neg * num / den.                                                   *)
(***************************************************************************)
IsDigit(c) == c \in Digits

IsDecimal(s) ==
    LET body == IF s # <<>> /\ s[1] = "-" THEN Tail(s) ELSE s
    IN  /\ \A i \in DOMAIN body : body[i] \in Digits \cup {"."}
        /\ Cardinality({i \in DOMAIN body : body[i] = "."}) <= 1
        /\ \E i \in DOMAIN body : body[i] \in Digits

DecimalOf(s) ==
    [neg |-> s # <<>> /\ s[1] = "-",
     n   |-> BFromDigits(SelectSeq(s, IsDigit), 1, <<>>),
     k   |-> IF Includes(s, ".") THEN Len(s) - IndexFrom(s, ".", 1) ELSE 0]

SignedSum(xneg, xn, yneg, yn, den) ==
    IF xneg = yneg THEN [neg |-> xneg, num |-> BAdd(xn, yn), den |-> den]
    ELSE IF BCmp(xn, yn) >= 0 THEN [neg |-> xneg, num |-> BSub(xn, yn), den |-> den]
    ELSE [neg |-> yneg, num |-> BSub(yn, xn), den |-> den]

ExactValue(p, op, c) ==
    LET x == DecimalOf(p)
        y == DecimalOf(c)
        K == IF x.k >= y.k THEN x.k ELSE y.k
        a == BMul(x.n, BPow10(K - x.k))
        b == BMul(y.n, BPow10(K - y.k))
    IN  CASE op = "+" -> SignedSum(x.neg, a, y.neg, b, BPow10(K))
          [] op = "-" -> SignedSum(x.neg, a, ~y.neg, b, BPow10(K))
          [] op = "×" -> [neg |-> x.neg # y.neg, num |-> BMul(x.n, y.n),
                          den |-> BPow10(x.k + y.k)]
          [] op = "÷" -> [neg |-> x.neg # y.neg, num |-> a, den |-> b]
          [] op = "%" -> [neg |-> x.neg, num |-> BDivMod(a, b)[2], den |-> BPow10(K)]

\* The decimal string of v rounded to 8 decimal places (halves away from zero)
RoundedString(v) ==
    LET q      == BDivMod(BAdd(BMulSmall(BMul(v.num, BPow10(8)), 2), v.den),
                          BMulSmall(v.den, 2))[1]
        ds     == BToDigits(q)
        padded == Zeros(9 - Len(ds)) \o ds
        int    == SubSeq(padded, 1, Len(padded) - 8)
        frac   == SubSeq(padded, Len(padded) - 7, Len(padded))
    IN  (IF v.neg /\ q # <<>> THEN <<"-">> ELSE <<>>)
        \o int
        \o (IF frac = Zeros(8) THEN <<>> ELSE <<".">> \o StripZeros(frac))

ExactResult(p, op, c) == RoundedString(ExactValue(p, op, c))

\* C1: compute() called where both operands parse as decimal numbers, an
\* operation is pending and the divisor of a division or a modulo is not zero
\* leaves in currentOperand the decimal string of (previousOperand operation
\* currentOperand) rounded to 8 decimal places, no operation, an empty
\* previousOperand and shouldResetDisplay true.
ComputeSuccess ==
    [][(/\ Ran("equals")
        /\ IsDecimal(previousOperand) /\ IsDecimal(currentOperand)
        /\ operation \in Operations
        /\ operation \in {"÷", "%"} => DecimalOf(currentOperand).n # <<>>)
       => /\ currentOperand' = ExactResult(previousOperand, operation, currentOperand)
          /\ operation' = undefined
          /\ previousOperand' = <<>>
          /\ shouldResetDisplay' = TRUE]_vars

\* The state in which 3, +, 4 and then × were entered
ChainedCalculationDone ==
    /\ last = [cmd |-> "operator", arg |-> "×"]
    /\ cmds = 4
    /\ previousOperand = <<"7">>
    /\ operation = "×"
    /\ currentOperand = <<>>

\* C2: chooseOperation(op2) called with both operands parseable, an operation
\* op1 pending, shouldResetDisplay false and op1 not failing computes op1 first
\* and then latches op2: previousOperand becomes the string compute() gives
\* for (previousOperand op1 currentOperand), operation becomes op2,
\* currentOperand becomes empty and shouldResetDisplay stays false.
ChainedCalculation ==
    [][(/\ Ran("operator")
        /\ IsDecimal(previousOperand) /\ IsDecimal(currentOperand)
        /\ operation \in Operations
        /\ ~shouldResetDisplay)
       => LET out == ComputeOutcome(previousOperand, operation, currentOperand)
          IN  out.kind = "result"
              => /\ previousOperand' = out.text
                 /\ operation' = last'.arg
                 /\ currentOperand' = <<>>
                 /\ shouldResetDisplay' = FALSE]_vars

\* C3: the callback of an error that a later command has followed leaves the
\* four fields as those later commands left them.
StaleTimerHarmless ==
    [][(Ran("timeout") /\ timers # <<>> /\ Head(timers)) => UNCHANGED fields]_vars

\* A division by zero in compute() has just been reported
DivisionByZeroReported ==
    /\ last.cmd = "equals"
    /\ warned = DivideByZero
    /\ operation = "÷"
    /\ IsDecimal(previousOperand)
    /\ DecimalOf(currentOperand).n = <<>>

\* C4: compute() called with operation ÷ or % and a parseable previousOperand
\* and a currentOperand that parses to zero reports DivideByZero for ÷ and
\* ModuloByZero for %, two different signals, and leaves the four fields as
\* they were.
ZeroDivisorNoMutation ==
    [][(/\ Ran("equals")
        /\ operation \in {"÷", "%"}
        /\ IsDecimal(previousOperand) /\ IsDecimal(currentOperand)
        /\ DecimalOf(currentOperand).n = <<>>)
       => /\ UNCHANGED fields
          /\ warned' = (IF operation = "÷" THEN DivideByZero ELSE ModuloByZero)
          /\ DivideByZero # ModuloByZero]_vars

\* Twelve characters with one decimal point typed from Idle
TypedTwelve ==
    /\ cmds = Len(typed)
    /\ Len(typed) = maxDigits
    /\ Dots(typed) = 1
    /\ currentOperand = typed

\* C5: after appendNumber for each character in turn of a sequence of at most
\* 12 digits and decimal points with at most one decimal point, from Idle,
\* currentOperand is that sequence and the other fields have their defaults.
TypingYieldsInput ==
    (cmds = Len(typed) /\ Len(typed) <= 12 /\ Dots(typed) <= 1)
    => /\ currentOperand = typed
       /\ previousOperand = <<>>
       /\ operation = undefined
       /\ shouldResetDisplay = FALSE

\* A thirteenth character was typed and currentOperand has twelve
ThirteenthRejected ==
    /\ last.cmd = "number"
    /\ Len(typed) = maxDigits + 1
    /\ Dots(typed) <= 1
    /\ Len(currentOperand) = maxDigits

\* C6: with shouldResetDisplay false, appendNumber(token) changes none of the
\* four fields when currentOperand has maxDigits characters already, or when
\* token is "." and currentOperand holds a "." already.
RejectedInputIsNoOp ==
    [][(/\ Ran("number")
        /\ ~shouldResetDisplay
        /\ \/ Len(currentOperand) >= maxDigits
           \/ last'.arg = "." /\ Includes(currentOperand, "."))
       => UNCHANGED fields]_vars

\* C7: currentOperand never has more than maxDigits characters, computed
\* results included.
OperandLengthBounded == Len(currentOperand) <= maxDigits

DeletedLastCharacter ==
    /\ last.cmd = "delete"
    /\ cmds = 5
    /\ currentOperand = <<"3">>
    /\ previousOperand = <<"4">>
    /\ operation = "+"

\* C9: delete() with shouldResetDisplay true leaves what clear() leaves; with
\* shouldResetDisplay false it removes the last character of currentOperand,
\* if there is one, and leaves the other three fields alone.
DeleteSemantics ==
    [][Ran("delete")
       => IF shouldResetDisplay THEN Idle'
          ELSE /\ currentOperand' =
                    (IF currentOperand = <<>> THEN <<>>
                     ELSE SubSeq(currentOperand, 1, Len(currentOperand) - 1))
               /\ UNCHANGED <<previousOperand, operation, shouldResetDisplay>>]_vars

\* clear() has run after an error, while the callback of the error is pending
ClearedAfterError ==
    /\ last.cmd = "clear"
    /\ timers # <<>>
    /\ Idle

\* C10: clear() leaves the Idle state whatever the state before, so a second
\* clear() changes nothing, and clear() can be called in every state.
ClearYieldsIdle ==
    /\ [][Ran("clear") => Idle']_vars
    /\ [][(last.cmd = "clear" /\ Ran("clear")) => UNCHANGED fields]_vars
    /\ [](ENABLED HandleClearInput)

Handlers == {"number", "operator", "equals", "clear", "delete"}

\* 4 was typed after 3 and +
SecondOperandShown ==
    /\ last = [cmd |-> "number", arg |-> "4"]
    /\ currentOperandElement = <<"4">>
    /\ previousOperandElement = <<"3", " ", "+">>

\* C11: when a command handler has ended, the current line shows
\* getDisplayNumber(currentOperand), or "0" when that is empty, and the
\* previous line shows getDisplayNumber(previousOperand), a space and the
\* operation when an operation is pending, and nothing otherwise.
RenderContract ==
    last.cmd \in Handlers
    => /\ currentOperandElement =
            (IF getDisplayNumber(currentOperand) = <<>> THEN <<"0">>
             ELSE getDisplayNumber(currentOperand))
       /\ previousOperandElement =
            (IF operation \in Operations
             THEN getDisplayNumber(previousOperand) \o <<" ">> \o <<operation>>
             ELSE <<>>)

\* C12: once a command has signalled an error, and until another command or
\* a timer callback runs, the current line shows "Error".
ErrorShown ==
    warned # NoWarning => currentOperandElement = <<"E", "r", "r", "o", "r">>

\* An error has just been signalled
ErrorSignalled == warned # NoWarning /\ color = ErrorColor /\ timers # <<>>

\* The callback has run and left the calculator reset
Recovered ==
    /\ last.cmd = "timeout"
    /\ Idle
    /\ color = ""
    /\ currentOperandElement = <<"0">>
    /\ previousOperandElement = <<>>

\* C13: every error signal is followed in the end by a step of the timer
\* callback, and that step leaves the Idle state, no error colour, "0" on the
\* current line and an empty previous line.
ErrorRecovery ==
    /\ (warned # NoWarning) ~> Recovered
    /\ [][Ran("timeout") => Recovered']_vars

(***************************************************************************)
(* The display of an operand as text: the part before the decimal point in *)
(* groups of three, the decimal point if there is one, and the first eight *)
(* characters after it.                                                    *)
(***************************************************************************)
IntegerText(s) ==
    IF Includes(s, ".") THEN SubSeq(s, 1, IndexFrom(s, ".", 1) - 1) ELSE s

FractionText(s) == SubSeq(s, IndexFrom(s, ".", 1) + 1, Len(s))

RECURSIVE Grouped(_, _)
Grouped(ds, i) ==
    IF i > Len(ds) THEN <<>>
    ELSE (IF i > 1 /\ (Len(ds) - i + 1) % 3 = 0 THEN <<",">> ELSE <<>>)
         \o <<ds[i]>> \o Grouped(ds, i + 1)

RECURSIVE DropLeadingZeros(_)
DropLeadingZeros(ds) ==
    IF Len(ds) > 1 /\ ds[1] = "0" THEN DropLeadingZeros(Tail(ds)) ELSE ds

FractionShown(s) ==
    IF Includes(s, ".")
    THEN <<".">> \o SubSeq(FractionText(s), 1,
                           IF Len(FractionText(s)) < 8 THEN Len(FractionText(s)) ELSE 8)
    ELSE <<>>

TextFormat(s) ==
    IF s = <<>> THEN <<>> ELSE Grouped(IntegerText(s), 1) \o FractionShown(s)

ValueFormat(s) ==
    IF s = <<>> THEN <<>>
    ELSE Grouped(DropLeadingZeros(IntegerText(s)), 1) \o FractionShown(s)

\* "1234567.123456789"
LongOperand ==
    <<"1", "2", "3", "4", "5", "6", "7", ".", "1", "2", "3", "4", "5", "6", "7", "8", "9">>

\* "1,234,567.12345678"
LongOperandShown ==
    <<"1", ",", "2", "3", "4", ",", "5", "6", "7", ".",
      "1", "2", "3", "4", "5", "6", "7", "8">>

\* "" gives "", and "1234567.123456789" gives "1,234,567.12345678" (facts of
\* getDisplayNumber alone, looked at once, in the first state)
FixedCases ==
    /\ getDisplayNumber(<<>>) = <<>>
    /\ getDisplayNumber(LongOperand) = LongOperandShown

\* C14: getDisplayNumber gives "" for "", and for an operand of digits with at
\* most one "." the text before the "." in groups of three, then, if there is
\* a ".", the "." and the first eight characters at most of the text after it.
DisplayFormatOfText ==
    /\ cmds = 0 => FixedCases
    /\ currentOperand # <<>> => currentOperandElement = TextFormat(currentOperand)

\* A point and nine digits were typed, and the current line shows eight
FractionCut ==
    /\ Len(currentOperand) = 10
    /\ currentOperand[1] = "."
    /\ Len(currentOperandElement) = 9

\* C14, amended: as above, with the text before the "." written without its
\* leading zeros ("0" when it is zeros only).
DisplayFormat ==
    /\ cmds = 0 => FixedCases
    /\ currentOperand # <<>> => currentOperandElement = ValueFormat(currentOperand)

\* C15: chooseOperation(op2) whose pending compute signals an error returns
\* with the four fields as they were before the call.
ChainedErrorAborts ==
    [][(Ran("operator") /\ warned' # NoWarning) => UNCHANGED fields]_vars

\* + was replaced by × after 3
OperatorReplaced ==
    /\ last = [cmd |-> "operator", arg |-> "×"]
    /\ cmds = 3
    /\ currentOperand = <<>>
    /\ previousOperand = <<"3">>
    /\ operation = "×"

\* C16: chooseOperation(op) with currentOperand empty leaves currentOperand,
\* previousOperand and shouldResetDisplay alone; it leaves operation alone too
\* when previousOperand is empty and sets it to op otherwise, and it signals
\* no error.
OperatorOnEmptyOperand ==
    [][(Ran("operator") /\ currentOperand = <<>>)
       => /\ UNCHANGED <<currentOperand, previousOperand, shouldResetDisplay>>
          /\ operation' = (IF previousOperand = <<>> THEN operation ELSE last'.arg)
          /\ warned' = NoWarning]_vars

\* An operand that does not parse: the empty string or a lone "."
Unparsable(s) == s = <<>> \/ s = <<".">>

\* Equals was pressed a second time on the result of 3 + 4
EqualsRepeated ==
    /\ last.cmd = "equals"
    /\ cmds = 5
    /\ currentOperand = <<"7">>
    /\ shouldResetDisplay

\* C17: compute() called where previousOperand or currentOperand does not
\* parse, or where no operation is pending, signals no error and leaves the
\* four fields as they were.
IncompleteEqualsIsNoOp ==
    [][(/\ Ran("equals")
        /\ \/ Unparsable(previousOperand)
           \/ Unparsable(currentOperand)
           \/ operation = undefined)
       => UNCHANGED fields /\ warned' = NoWarning]_vars

(***************************************************************************)
(* The five classes of states.                                             *)
(***************************************************************************)
Accumulating ==
    currentOperand # <<>> /\ operation = undefined /\ ~shouldResetDisplay

AwaitingSecondOperand ==
    operation # undefined /\ previousOperand # <<>> /\ currentOperand = <<>>

Accumulating2 ==
    operation # undefined /\ previousOperand # <<>> /\ currentOperand # <<>>

Result == shouldResetDisplay

Classes ==
    {c \in {"Idle", "Accumulating", "AwaitingSecondOperand", "Accumulating2", "Result"} :
        CASE c = "Idle" -> Idle
          [] c = "Accumulating" -> Accumulating
          [] c = "AwaitingSecondOperand" -> AwaitingSecondOperand
          [] c = "Accumulating2" -> Accumulating2
          [] c = "Result" -> Result}

\* A second operand is being typed after 3 and an operator
SecondOperandTyped ==
    /\ Accumulating2
    /\ last.cmd = "number"
    /\ previousOperand = <<"3">>
    /\ cmds = 3

\* C18: operation is set exactly when previousOperand is not empty, every
\* state is in one of the five classes and in one only, and operation gets set
\* by chooseOperation alone and is not set after clear() or the timer callback.
OperationIffPrevious ==
    /\ [](operation # undefined <=> previousOperand # <<>>)
    /\ [](Cardinality(Classes) = 1)
    /\ [][(operation = undefined /\ operation' # undefined) => Ran("operator")]_vars
    /\ [][(Ran("clear") \/ Ran("timeout")) => operation' = undefined]_vars

\* compute() has just stored the result of 3 + 4
ResultStored ==
    /\ last.cmd = "equals"
    /\ cmds = 4
    /\ shouldResetDisplay
    /\ currentOperand = <<"7">>

\* C19: where shouldResetDisplay is true, operation is absent, previousOperand
\* is empty and currentOperand is not; so chooseOperation never finds
\* shouldResetDisplay true with currentOperand empty, nor with previousOperand
\* not empty (the case in which its test of !shouldResetDisplay would decide).
ResultStateShape ==
    shouldResetDisplay
    => /\ operation = undefined
       /\ previousOperand = <<>>
       /\ currentOperand # <<>>

\* C20: a pending operation has a previousOperand that parses; chooseOperation
\* called with a parseable previousOperand, a pending operation and a
\* currentOperand computes with them; and compute() called with an operation
\* pending and a parseable currentOperand stores a result or signals an error.
OperandNeverLost ==
    /\ [](operation # undefined => IsDecimal(previousOperand))
    /\ [][(/\ Ran("operator")
            /\ operation # undefined
            /\ IsDecimal(previousOperand)
            /\ currentOperand # <<>>)
           => ComputeOutcome(previousOperand, operation, currentOperand).kind
                # NoOp.kind]_vars
    /\ [][(Ran("equals") /\ operation # undefined /\ IsDecimal(currentOperand))
           => (shouldResetDisplay' \/ warned' # NoWarning)]_vars

====
